---- MODULE Spec2Model ----
(***************************************************************************)
(* WhatsApp relay backend (kishan123a/meta).  Three variants of the same   *)
(* Express program live in the repository:                                 *)
(*   "server"   src/server.js          persistent store, webhook           *)
(*                                      normaliser, send, history          *)
(*   "part_000" src/unnamed/part_000   catch-all route, history, send      *)
(*   "part_001" src/unnamed/part_001   send                                *)
(* A request is a record in reqs; a handler is cut at its awaits, so that  *)
(* other requests' steps interleave exactly where Node lets them.          *)
(*                                                                         *)
(* Text is a sequence of tokens (so that template literals concatenate,    *)
(* trim() trims and "contains" is decidable); Undef is JavaScript's        *)
(* undefined, which node-postgres stores as NULL.                          *)
(***************************************************************************)
EXTENDS Integers, Sequences, FiniteSets, TLC

VARIABLES variant, statusColumn, store, reqs, messageInbox

vars == <<variant, statusColumn, store, reqs, messageInbox>>

\* ---- bounds ----
MaxReq == 2
MaxClock == 1
MaxInboxReq == 4

\* ---- values ----
Undef == <<"%undefined">>
NoColumn == <<"%nocolumn">>
Absent == "%undefined"
Phones == {"P1", "P2"}
Wamids == {"W1", "W2"}

Falsy(x) == x = Undef \/ x = <<>>

\* a || b
OrElse(a, b) == IF Falsy(a) THEN b ELSE a

IsSpace(t) == t = " "

RECURSIVE TrimLeft(_)
TrimLeft(s) == IF s # <<>> /\ IsSpace(Head(s)) THEN TrimLeft(Tail(s)) ELSE s

RECURSIVE TrimRight(_)
TrimRight(s) ==
  IF s # <<>> /\ IsSpace(s[Len(s)]) THEN TrimRight(SubSeq(s, 1, Len(s) - 1)) ELSE s

\* String.prototype.trim
Trim(s) == TrimRight(TrimLeft(s))

Contains(s, t) == \E i \in 1..Len(s) : s[i] = t

\* ---- the chat_messages table ----

\* A row of chat_messages.  A table made by initializeDatabase has no status
\* column: its rows carry NoColumn there.
Row(id, phone, wamid, direction, content, status, ts) ==
  [id |-> id, phone_number |-> phone, wamid |-> wamid, direction |-> direction,
   content |-> content, status |-> status, timestamp |-> ts]

\* CREATE TABLE IF NOT EXISTS keeps a table that is already there, with its
\* columns and its rows: one earlier outgoing message may be in it.
PreRow(col) ==
  Row(1, "P1", "W1", "outgoing", <<"hi">>, IF col THEN <<"sent">> ELSE NoColumn, 0)

InitialStores(col) == {{}, {PreRow(col)}}

\* ---- queries handed to pool.query ----
Query(op, phone, wamid, direction, content, status) ==
  [op |-> op, phone_number |-> phone, wamid |-> wamid, direction |-> direction,
   content |-> content, status |-> status]

NoQuery == Query("none", Absent, Absent, Absent, Undef, Undef)

InsertQuery(phone, wamid, direction, content, status) ==
  Query("insert", phone, wamid, direction, content, status)

UpdateStatusQuery(status, wamid) ==
  Query("update", Absent, wamid, Absent, Undef, status)

SelectQuery(phone) == Query("select", phone, Absent, Absent, Undef, Undef)

\* The INSERT and the UPDATE name the column status; the SELECT does not.
NamesStatus(q) == q.op \in {"insert", "update"}

\* phone_number, wamid and direction are NOT NULL.
NotNullOk(q) ==
  q.op = "insert" =>
    q.phone_number # Absent /\ q.wamid # Absent /\ q.direction # Absent

\* What the database answers to q: the connection may be down (or the table
\* not there), the statement may name a column the table lacks, or it may
\* break a constraint.
QueryResult(q, up, col) ==
  IF ~up THEN "outage"
  ELSE IF NamesStatus(q) /\ ~col THEN "schema"
  ELSE IF ~NotNullOk(q) THEN "constraint"
  ELSE "ok"

\* INSERT ... ON CONFLICT (wamid) DO NOTHING
InsertOrIgnore(st, q, ts) ==
  IF \E r \in st : r.wamid = q.wamid
  THEN st
  ELSE st \cup {Row(Cardinality(st) + 1, q.phone_number, q.wamid, q.direction,
                    q.content, q.status, ts)}

\* An update that creates the row it does not find.
UpsertStatus(st, q) ==
  IF \E r \in st : r.wamid = q.wamid
  THEN {IF r.wamid = q.wamid THEN [r EXCEPT !.status = q.status] ELSE r : r \in st}
  ELSE st \cup {Row(Cardinality(st) + 1, Absent, q.wamid, "incoming", Undef,
                    q.status, 0)}

\* UPDATE chat_messages SET status = $1 WHERE wamid = $2
UpdateStatus(st, q) ==
  {IF r.wamid = q.wamid THEN [r EXCEPT !.status = q.status] ELSE r : r \in st}

\* SELECT phone_number, direction, content, timestamp
Project(r) ==
  [phone_number |-> r.phone_number, direction |-> r.direction,
   content |-> r.content, timestamp |-> r.timestamp]

IsSortedByTimestamp(s) ==
  \A i \in 1..Len(s) : \A j \in 1..Len(s) : i < j => s[i].timestamp <= s[j].timestamp

\* The sequences that list each row of the set rs once.
Listings(rs) ==
  {s \in [1..Cardinality(rs) -> rs] : \A r \in rs : \E i \in DOMAIN s : s[i] = r}

\* ... WHERE phone_number = $1 ORDER BY timestamp ASC: rows of equal
\* timestamp come in either order.
SelectHistory(st, q) ==
  {[i \in DOMAIN s |-> Project(s[i])] :
     s \in {l \in Listings({r \in st : r.phone_number = q.phone_number}) :
              IsSortedByTimestamp(l)}}

\* ---- webhook envelopes (req.body of POST /api/forwarded-response) ----

\* One entry of value.messages.  has: the object named after the type
\* (msg.text, msg.image, ..., msg.reaction) is there; field: its body,
\* caption, filename or emoji; message_id: reaction.message_id.
Msg(type, from, id, has, field, mid) ==
  [type |-> type, from |-> from, id |-> id, has |-> has, field |-> field,
   message_id |-> mid]

\* One entry of value.statuses.
StatusEntry(id, status) == [id |-> id, status |-> status]

\* hasValue: data.entry?.[0]?.changes?.[0]?.value is truthy; hasMessages,
\* hasStatuses: the property is truthy (an empty array is).
Envelope(hasValue, hasMessages, messages, hasStatuses, statuses) ==
  [hasValue |-> hasValue, hasMessages |-> hasMessages, messages |-> messages,
   hasStatuses |-> hasStatuses, statuses |-> statuses]

TextMessages ==
  {Msg("text", "P1", "W1", TRUE, <<"hello">>, Absent),
   Msg("text", "P2", "W2", TRUE, <<"hello">>, Absent),
   Msg("text", "P1", "W2", TRUE, <<"bye">>, Absent)}

MediaMessages ==
  {Msg("image", "P1", "W2", TRUE, Undef, Absent),
   Msg("audio", "P1", "W2", FALSE, Undef, Absent),
   Msg("video", "P1", "W2", TRUE, <<"clip">>, Absent),
   Msg("document", "P1", "W2", TRUE, Undef, Absent),
   Msg("sticker", "P1", "W2", FALSE, Undef, Absent)}

ReactionMessages ==
  {Msg("reaction", "P1", "W2", TRUE, <<"HEART">>, w) : w \in Wamids}
  \cup {Msg("reaction", "P1", "W2", TRUE, Undef, "W1")}

OtherMessages == {Msg("location", "P1", "W2", FALSE, Undef, Absent)}

\* Entries that miss a part the handler reads.
BrokenMessages ==
  {Msg("text", "P1", "W1", FALSE, Undef, Absent),
   Msg("text", Absent, "W1", TRUE, <<"hello">>, Absent)}

Messages ==
  TextMessages \cup MediaMessages \cup ReactionMessages \cup OtherMessages
  \cup BrokenMessages

StatusEntries ==
  {StatusEntry(w, <<"delivered">>) : w \in Wamids}
  \cup {StatusEntry("W1", Undef)}

Envelopes ==
  {Envelope(FALSE, FALSE, <<>>, FALSE, <<>>),
   Envelope(TRUE, FALSE, <<>>, FALSE, <<>>),
   Envelope(TRUE, TRUE, <<>>, FALSE, <<>>),
   Envelope(TRUE, FALSE, <<>>, TRUE, <<>>)}
  \cup {Envelope(TRUE, TRUE, <<m>>, FALSE, <<>>) : m \in Messages}
  \cup {Envelope(TRUE, FALSE, <<>>, TRUE, <<s>>) : s \in StatusEntries}
  \cup {Envelope(TRUE, TRUE, <<m>>, TRUE, <<StatusEntry("W1", <<"delivered">>)>>) :
          m \in {Msg("text", "P1", "W2", TRUE, <<"hello">>, Absent)}}

\* ---- POST /api/forwarded-response (src/server.js) ----

\* What the try block does up to its await: it throws a TypeError, or it
\* hands a query to the pool (early: the branch returns after the await), or
\* it runs through.
Threw == [threw |-> TRUE, query |-> NoQuery, early |-> FALSE]
Awaits(q, early) == [threw |-> FALSE, query |-> q, early |-> early]
RunsThrough == [threw |-> FALSE, query |-> NoQuery, early |-> FALSE]

SaveIncoming(msg, content) ==
  Awaits(InsertQuery(msg.from, msg.id, "incoming", content, <<"read">>), FALSE)

\* A switch whose unmatched type stores nothing.
OnKnownMessages(messages) ==
  IF messages = <<>> THEN Threw
  ELSE LET msg == messages[1] IN
    CASE msg.type = "text" ->
           IF msg.has THEN SaveIncoming(msg, msg.field) ELSE Threw
      [] msg.type = "image" ->
           IF msg.has
           THEN SaveIncoming(msg, Trim(<<"[Image]", " ">> \o OrElse(msg.field, <<>>)))
           ELSE Threw
      [] msg.type = "audio" -> SaveIncoming(msg, <<"[Audio Message]">>)
      [] msg.type = "video" ->
           IF msg.has
           THEN SaveIncoming(msg, Trim(<<"[Video]", " ">> \o OrElse(msg.field, <<>>)))
           ELSE Threw
      [] msg.type = "document" ->
           IF msg.has
           THEN SaveIncoming(msg, <<"[Document]", " ">> \o OrElse(msg.field, <<"File">>))
           ELSE Threw
      [] msg.type = "sticker" -> SaveIncoming(msg, <<"[Sticker]">>)
      [] msg.type = "reaction" ->
           IF msg.has
           THEN Awaits(UpdateStatusQuery(
                         <<"Reacted with ">> \o OrElse(msg.field, <<"THUMBS_UP">>),
                         msg.message_id), TRUE)
           ELSE Threw
      [] OTHER -> RunsThrough

\* if (change.messages) { ... }
OnMessages(messages) ==
  IF messages = <<>> THEN Threw
  ELSE LET msg == messages[1] IN
    CASE msg.type = "text" ->
           IF msg.has THEN SaveIncoming(msg, msg.field) ELSE Threw
      [] msg.type = "image" ->
           IF msg.has
           THEN SaveIncoming(msg, Trim(<<"[Image]", " ">> \o OrElse(msg.field, <<>>)))
           ELSE Threw
      [] msg.type = "audio" -> SaveIncoming(msg, <<"[Audio Message]">>)
      [] msg.type = "video" ->
           IF msg.has
           THEN SaveIncoming(msg, Trim(<<"[Video]", " ">> \o OrElse(msg.field, <<>>)))
           ELSE Threw
      [] msg.type = "document" ->
           IF msg.has
           THEN SaveIncoming(msg, <<"[Document]", " ">> \o OrElse(msg.field, <<"File">>))
           ELSE Threw
      [] msg.type = "sticker" -> SaveIncoming(msg, <<"[Sticker]">>)
      [] msg.type = "reaction" ->
           IF msg.has
           THEN Awaits(UpdateStatusQuery(
                         <<"Reacted with ">> \o OrElse(msg.field, <<"THUMBS_UP">>),
                         msg.message_id), TRUE)
           ELSE Threw
      [] OTHER -> SaveIncoming(msg, <<"[Unsupported Message Type]">>)

\* else if (change.statuses) { ... }
OnStatuses(statuses) ==
  IF statuses = <<>> THEN Threw
  ELSE Awaits(UpdateStatusQuery(statuses[1].status, statuses[1].id), FALSE)

\* The two branches in the other order.
DispatchStatusesFirst(change) ==
  IF change.hasStatuses THEN OnStatuses(change.statuses)
  ELSE IF change.hasMessages THEN OnMessages(change.messages)
  ELSE RunsThrough

\* The if / else if of the try block.
Dispatch(change) ==
  IF change.hasMessages THEN OnMessages(change.messages)
  ELSE IF change.hasStatuses THEN OnStatuses(change.statuses)
  ELSE RunsThrough

\* res.sendStatus(200), at the source line that sends it.
Ack(line) == [code |-> 200, at |-> line, kind |-> "status", rows |-> <<>>,
              payload |-> <<"OK">>]

\* A request in the server: its route and input, the handler's position, the
\* responses written so far, the query handed to the pool and its outcome
\* (early: the branch returns right after the await; rows: a SELECT's
\* result), the calls made to the provider and how the last one settled.
NoApi == [outcome |-> "none", id |-> Absent, payload |-> <<>>]

Req(route, in, pc, res, query, early, calls) ==
  [route |-> route, in |-> in, pc |-> pc, res |-> res, query |-> query,
   qres |-> "none", early |-> early, rows |-> <<>>, calls |-> calls,
   api |-> NoApi]

WebhookReq(env, pc, res, query, early) ==
  Req("webhook", env, pc, res, query, early, <<>>)

\* A handler without the catch: the error leaves the route.
Uncaught(r) == [r EXCEPT !.pc = "threw"]

\* catch (error) { console.error(...) } and then line 120.
CaughtThenAck(r) == [r EXCEPT !.pc = "done", !.res = Append(r.res, Ack(120))]

\* The handler from its entry to its first await or to its end.
ForwardedResponseEntry(env) ==
  IF ~env.hasValue
  THEN WebhookReq(env, "done", <<Ack(63)>>, NoQuery, FALSE)
  ELSE LET s == Dispatch(env) IN
    IF s.threw THEN CaughtThenAck(WebhookReq(env, "try", <<>>, NoQuery, FALSE))
    ELSE IF s.query.op = "none"
         THEN WebhookReq(env, "done", <<Ack(120)>>, NoQuery, FALSE)
         ELSE WebhookReq(env, "await_db", <<>>, s.query, s.early)

\* The handler after its await.
ForwardedResponseResumed(r) ==
  IF r.qres # "ok" THEN CaughtThenAck(r)
  ELSE IF r.early THEN [r EXCEPT !.pc = "done", !.res = Append(r.res, Ack(97))]
  ELSE [r EXCEPT !.pc = "done", !.res = Append(r.res, Ack(120))]

\* ---- GET /api/history/:phoneNumber (src/server.js) ----

Json(code, line, rows, payload) ==
  [code |-> code, at |-> line, kind |-> "json", rows |-> rows, payload |-> payload]

HistoryEntry(phoneNumber) ==
  Req("history", phoneNumber, "await_db", <<>>, SelectQuery(phoneNumber), FALSE, <<>>)

HistoryResumed(r) ==
  IF r.qres = "ok"
  THEN [r EXCEPT !.pc = "done", !.res = Append(r.res, Json(200, 171, r.rows, <<>>))]
  ELSE [r EXCEPT !.pc = "done",
                 !.res = Append(r.res,
                           Json(500, 174, <<>>, <<"Failed to fetch chat history">>))]

\* ---- app.get('*') (src/unnamed/part_000) ----

\* The catch-all is registered before /api/history/:phoneNumber and never
\* calls next(): it answers the GET with the frontend's index.html.
CatchAllEntry(phoneNumber) ==
  Req("history", phoneNumber, "done",
      <<[code |-> 200, at |-> 57, kind |-> "file",
         rows |-> <<>>, payload |-> <<"index.html">>]>>,
      NoQuery, FALSE, <<>>)

\* ---- the state machine of the store and of the inbound routes ----

Variants == {"server", "part_000", "part_001"}

Init ==
  /\ variant \in Variants
  /\ statusColumn \in BOOLEAN
  /\ store \in InitialStores(statusColumn)
  /\ variant = "part_001" => (~statusColumn /\ store = {})
  /\ reqs = <<>>
  /\ messageInbox = <<>>

\* POST /api/forwarded-response arrives.
ForwardedResponse(env) ==
  /\ variant = "server"
  /\ Len(reqs) < MaxReq
  /\ reqs' = Append(reqs, ForwardedResponseEntry(env))
  /\ UNCHANGED <<variant, statusColumn, store, messageInbox>>

\* timestamp DEFAULT NOW(): the time of an insert is not before any stored
\* timestamp, and two inserts may fall on the same instant.
Latest(st) ==
  IF st = {} THEN 0
  ELSE CHOOSE t \in {r.timestamp : r \in st} : \A r \in st : r.timestamp <= t

Nows(st) == {t \in {Latest(st), Latest(st) + 1} : t <= MaxClock}

\* pool.query(q) settles: the store after it.
StoreAfter(st, q, result, ts) ==
  IF result # "ok" THEN st
  ELSE IF q.op = "insert" THEN InsertOrIgnore(st, q, ts)
  ELSE IF q.op = "update" THEN UpdateStatus(st, q)
  ELSE st

\* The query of webhook request i settles and the handler goes on after its
\* await.
ForwardedResponseResume(i, up, ts) ==
  /\ reqs[i].route = "webhook"
  /\ reqs[i].pc = "await_db"
  /\ LET result == QueryResult(reqs[i].query, up, statusColumn) IN
       /\ store' = StoreAfter(store, reqs[i].query, result, ts)
       /\ reqs' = [reqs EXCEPT ![i] =
                     ForwardedResponseResumed([reqs[i] EXCEPT !.qres = result])]
  /\ UNCHANGED <<variant, statusColumn, messageInbox>>

\* GET /api/history/:phoneNumber arrives.
History(phoneNumber) ==
  /\ variant = "server"
  /\ Len(reqs) < MaxReq
  /\ reqs' = Append(reqs, HistoryEntry(phoneNumber))
  /\ UNCHANGED <<variant, statusColumn, store, messageInbox>>

\* The SELECT of history request i settles and the handler goes on.
HistoryResume(i, up) ==
  /\ reqs[i].route = "history"
  /\ reqs[i].pc = "await_db"
  /\ LET result == QueryResult(reqs[i].query, up, statusColumn) IN
       \E rows \in (IF result = "ok" THEN SelectHistory(store, reqs[i].query)
                    ELSE {<<>>}) :
         reqs' = [reqs EXCEPT ![i] =
                    HistoryResumed([reqs[i] EXCEPT !.qres = result, !.rows = rows])]
  /\ UNCHANGED <<variant, statusColumn, store, messageInbox>>

\* GET /api/history/:phoneNumber arrives at part_000.
CatchAll(phoneNumber) ==
  /\ variant = "part_000"
  /\ Len(reqs) < MaxReq
  /\ reqs' = Append(reqs, CatchAllEntry(phoneNumber))
  /\ UNCHANGED <<variant, statusColumn, store, messageInbox>>

Next ==
  \/ \E env \in Envelopes : ForwardedResponse(env)
  \/ \E i \in 1..Len(reqs) : \E up \in BOOLEAN : \E ts \in Nows(store) :
       ForwardedResponseResume(i, up, ts)
  \/ \E p \in Phones : History(p)
  \/ \E i \in 1..Len(reqs) : \E up \in BOOLEAN : HistoryResume(i, up)
  \/ \E p \in Phones : CatchAll(p)

Spec == Init /\ [][Next]_vars

\* ---- POST /api/send-message (src/server.js), POST /send-message (parts) ----

SendBody(to, type, messageBody, templateName, headerImageUrl) ==
  [to |-> to, type |-> type, messageBody |-> messageBody,
   templateName |-> templateName, headerImageUrl |-> headerImageUrl]

SendBodies ==
  {SendBody(Absent, "text", <<"hi">>, Undef, Undef),
   SendBody("P1", Absent, <<"hi">>, Undef, Undef),
   SendBody("P1", "text", <<"hi">>, Undef, Undef),
   SendBody("P1", "text", Undef, Undef, Undef),
   SendBody("P1", "text", <<>>, <<"promo">>, Undef),
   SendBody("P2", "template", Undef, <<"promo">>, Undef),
   SendBody("P1", "template", Undef, <<"promo">>, <<"http://img">>),
   SendBody("P1", "template", <<"hi">>, Undef, Undef),
   SendBody("P1", "image", <<"hi">>, <<"promo">>, Undef)}

\* The JSON handed to axios.post.
Payload(to, type, text, template, components) ==
  [messaging_product |-> "whatsapp", to |-> to, type |-> type, text |-> text,
   template |-> template, components |-> components]

SendReq(body, pc, res, calls) == Req("send", body, pc, res, NoQuery, FALSE, calls)

\* src/server.js: the check of to and type, then line 129 reads
\* META_ACCESS_TOKEN, which nothing declares: a ReferenceError outside any
\* try leaves the async handler before it has called the provider or written
\* a response.
SendMessageServerEntry(body) ==
  IF body.to = Absent \/ body.type = Absent
  THEN SendReq(body, "done",
               <<Json(400, 126, <<>>, <<"Recipient and type are required.">>)>>, <<>>)
  ELSE SendReq(body, "threw", <<>>, <<>>)

\* The line of part_000 or of part_001, which hold the same handler.
At(v, l0, l1) == IF v = "part_000" THEN l0 ELSE l1

\* part_000 and part_001: the handler from its entry to its await or its end.
SendMessageEntry(v, body) ==
  IF body.to = Absent \/ body.type = Absent
  THEN SendReq(body, "done",
               <<Json(400, At(v, 109, 53), <<>>, <<"to and type are required">>)>>,
               <<>>)
  ELSE IF body.type = "template"
  THEN IF Falsy(body.templateName)
       THEN SendReq(body, "done",
                    <<Json(400, At(v, 119, 63), <<>>, <<"templateName is required">>)>>,
                    <<>>)
       ELSE SendReq(body, "await_api", <<>>,
                    <<Payload(body.to, body.type, Undef, body.templateName,
                              IF Falsy(body.headerImageUrl) THEN Undef
                              ELSE body.headerImageUrl)>>)
  ELSE IF body.type = "text"
  THEN IF Falsy(body.messageBody)
       THEN SendReq(body, "done",
                    <<Json(400, At(v, 143, 87), <<>>, <<"messageBody is required">>)>>,
                    <<>>)
       ELSE SendReq(body, "await_api", <<>>,
                    <<Payload(body.to, body.type, body.messageBody, Undef, Undef)>>)
  ELSE SendReq(body, "done",
               <<Json(400, At(v, 146, 90), <<>>, <<"Invalid message type">>)>>, <<>>)

\* How axios.post settles: a 2xx answer that carries the new message's id, a
\* non-2xx answer that carries the provider's error, or no answer at all.
Accepted(w) == [outcome |-> "accepted", id |-> w, payload |-> <<"messages", w>>]
Rejected == [outcome |-> "rejected", id |-> Absent, payload |-> <<"provider error">>]
NetworkError == [outcome |-> "network", id |-> Absent, payload |-> <<>>]

ApiOutcomes == {Accepted("W2"), Rejected, NetworkError}

\* A catch that answers as if the send had gone through.
SendFailedSilently(v, r) ==
  [r EXCEPT !.pc = "done",
            !.res = Append(r.res, Json(200, At(v, 156, 100), <<>>, r.api.payload))]

\* catch (error): error.response ? error.response.data : { message: error.message }
SendFailed(v, r) ==
  [r EXCEPT !.pc = "done",
            !.res = Append(r.res,
                      Json(500, At(v, 156, 100), <<>>,
                           IF r.api.outcome = "rejected" THEN r.api.payload
                           ELSE <<"message", "network error">>))]

\* part_000 and part_001: the handler after its await.
SendMessageResumed(v, r) ==
  IF r.api.outcome = "accepted"
  THEN [r EXCEPT !.pc = "done",
                 !.res = Append(r.res, Json(200, At(v, 153, 97), <<>>, r.api.payload))]
  ELSE SendFailed(v, r)

\* POST /api/send-message arrives at src/server.js.
SendMessageServer(body) ==
  /\ variant = "server"
  /\ Len(reqs) < MaxReq
  /\ reqs' = Append(reqs, SendMessageServerEntry(body))
  /\ UNCHANGED <<variant, statusColumn, store, messageInbox>>

\* POST /send-message arrives at part_000 or part_001.
SendMessage(body) ==
  /\ variant \in {"part_000", "part_001"}
  /\ Len(reqs) < MaxReq
  /\ reqs' = Append(reqs, SendMessageEntry(variant, body))
  /\ UNCHANGED <<variant, statusColumn, store, messageInbox>>

\* axios.post of request i settles and the handler goes on after its await.
SendMessageResume(i, outcome) ==
  /\ reqs[i].route = "send"
  /\ reqs[i].pc = "await_api"
  /\ reqs' = [reqs EXCEPT ![i] =
                SendMessageResumed(variant, [reqs[i] EXCEPT !.api = outcome])]
  /\ UNCHANGED <<variant, statusColumn, store, messageInbox>>

NextSend ==
  \/ \E body \in SendBodies : SendMessageServer(body)
  \/ \E body \in SendBodies : SendMessage(body)
  \/ \E i \in 1..Len(reqs) : \E outcome \in ApiOutcomes : SendMessageResume(i, outcome)

SpecSend == Init /\ [][NextSend]_vars

\* ---- the inbox of part_000 and part_001 ----

\* Bodies forwarded to the inbox variants.
InboxPayloads ==
  {Envelope(TRUE, TRUE, <<m>>, FALSE, <<>>) : m \in TextMessages}
  \cup {Envelope(TRUE, FALSE, <<>>, TRUE, <<StatusEntry("W1", <<"delivered">>)>>)}

\* app.post('/api/forwarded-response') of the parts: no await, the handler
\* runs from messageInbox.push to its response in one piece.
InboxPushEntry(v, forwardedData) ==
  Req("push", forwardedData, "done",
      <<Json(200, At(v, 73, 34), <<>>, <<"Data received">>)>>, NoQuery, FALSE, <<>>)

InboxAfterPush(inbox, forwardedData) == Append(inbox, forwardedData)

\* A poll that answers all but the newest payload.
GetMessagesStale(v, inbox) ==
  Req("poll", <<>>, "done",
      <<Json(200, At(v, 80, 41),
             IF inbox = <<>> THEN <<>> ELSE SubSeq(inbox, 1, Len(inbox) - 1), <<>>)>>,
      NoQuery, FALSE, <<>>)

\* app.get('/api/get-messages'): res.status(200).json(messageInbox)
\* serialises the array as it is at the call; no await.
GetMessagesEntry(v, inbox) ==
  Req("poll", <<>>, "done", <<Json(200, At(v, 80, 41), inbox, <<>>)>>,
      NoQuery, FALSE, <<>>)

\* messageInbox = []
InboxAfterPoll(inbox) == <<>>

\* part_000: app.get('*') is registered before /api/get-messages too, and
\* answers the poll with index.html.
CatchAllPollEntry ==
  Req("poll", <<>>, "done",
      <<[code |-> 200, at |-> 57, kind |-> "file", rows |-> <<>>,
         payload |-> <<"index.html">>]>>,
      NoQuery, FALSE, <<>>)

\* POST /api/forwarded-response arrives at part_000 or part_001.
InboxPush(forwardedData) ==
  /\ variant \in {"part_000", "part_001"}
  /\ Len(reqs) < MaxInboxReq
  /\ messageInbox' = InboxAfterPush(messageInbox, forwardedData)
  /\ reqs' = Append(reqs, InboxPushEntry(variant, forwardedData))
  /\ UNCHANGED <<variant, statusColumn, store>>

\* GET /api/get-messages arrives at part_001: the handler answers and clears
\* in the same turn of the event loop.
GetMessages ==
  /\ variant = "part_001"
  /\ Len(reqs) < MaxInboxReq
  /\ reqs' = Append(reqs, GetMessagesEntry(variant, messageInbox))
  /\ messageInbox' = InboxAfterPoll(messageInbox)
  /\ UNCHANGED <<variant, statusColumn, store>>

\* GET /api/get-messages arrives at part_000.
CatchAllPoll ==
  /\ variant = "part_000"
  /\ Len(reqs) < MaxInboxReq
  /\ reqs' = Append(reqs, CatchAllPollEntry)
  /\ UNCHANGED <<variant, statusColumn, store, messageInbox>>

NextInbox ==
  \/ \E forwardedData \in InboxPayloads : InboxPush(forwardedData)
  \/ GetMessages
  \/ CatchAllPoll

SpecInbox == Init /\ [][NextInbox]_vars

\* ======================= properties =======================

WebhookReqs == {i \in 1..Len(reqs) : reqs[i].route = "webhook"}
SendReqs == {i \in 1..Len(reqs) : reqs[i].route = "send"}

RowsWith(st, w) == {r \in st : r.wamid = w}

\* The envelope carries one well-formed message that is to be stored.
IsNewMessage(env) ==
  /\ env.hasValue /\ env.hasMessages /\ env.messages # <<>>
  /\ LET m == env.messages[1] IN
       /\ m.type \in {"text", "image", "audio", "video", "document", "sticker"}
       /\ m.type \in {"text", "image", "video", "document"} => m.has
       /\ m.from # Absent /\ m.id # Absent

\* The envelope carries a statuses entry and no messages.
IsStatusEvent(env) ==
  env.hasValue /\ ~env.hasMessages /\ env.hasStatuses /\ env.statuses # <<>>

\* The envelope carries a reaction that names an emoji.
IsReaction(env) ==
  /\ env.hasValue /\ env.hasMessages /\ env.messages # <<>>
  /\ env.messages[1].type = "reaction" /\ env.messages[1].has
  /\ env.messages[1].field # Undef

\* Request i is answered in this step.
Finishes(i) ==
  /\ i \in 1..Len(reqs')
  /\ reqs'[i].pc = "done"
  /\ i \in 1..Len(reqs) => reqs[i].pc # "done"

\* C1: once a delivery of a new message with wamid w has been handled, and
\* the database was there to take its query, the store holds exactly one row
\* with wamid w.
C1_ExactlyOneRow ==
  \A i \in WebhookReqs :
    (reqs[i].pc = "done" /\ IsNewMessage(reqs[i].in) /\ reqs[i].qres # "outage")
      => Cardinality(RowsWith(store, reqs[i].in.messages[1].id)) = 1

\* C2: whatever the body and whatever the outcome of the query, the webhook
\* handler never leaves the route by an exception, never writes a second
\* response, and has written exactly one response, a 200, when it is done.
C2_AcksExactlyOnce ==
  \A i \in WebhookReqs :
    /\ reqs[i].pc \in {"await_db", "done"}
    /\ reqs[i].pc = "await_db" => reqs[i].res = <<>>
    /\ reqs[i].pc = "done" => (Len(reqs[i].res) = 1 /\ reqs[i].res[1].code = 200)

\* A webhook whose query the store refused, and one whose body made the
\* handler throw, both acknowledged.
C2_Witness ==
  /\ \E i \in WebhookReqs :
       reqs[i].pc = "done" /\ reqs[i].qres \in {"outage", "schema", "constraint"}
       /\ reqs[i].res = <<Ack(120)>>
  /\ \E i \in WebhookReqs :
       reqs[i].pc = "done" /\ reqs[i].in.hasMessages /\ reqs[i].in.messages = <<>>
       /\ reqs[i].res = <<Ack(120)>>

\* C3: a statuses event {id, status} whose id is the wamid of a stored row
\* sets that row's status to the delivered value, adds no row and leaves
\* every other row as it was (the database being there to take the query).
C3_StatusEventSetsStatus ==
  [][\A i \in WebhookReqs :
       (/\ Finishes(i)
        /\ IsStatusEvent(reqs[i].in)
        /\ reqs'[i].qres # "outage"
        /\ RowsWith(store, reqs[i].in.statuses[1].id) # {})
       => store' = {IF r.wamid = reqs[i].in.statuses[1].id
                    THEN [r EXCEPT !.status = reqs[i].in.statuses[1].status]
                    ELSE r : r \in store}]_vars

\* C4: a reaction whose message_id is the wamid of a stored row sets that
\* row's status to a text that contains the reaction's emoji, and adds no
\* row (the database being there to take the query).
C4_ReactionSetsStatus ==
  [][\A i \in WebhookReqs :
       (/\ Finishes(i)
        /\ IsReaction(reqs[i].in)
        /\ reqs'[i].qres # "outage"
        /\ RowsWith(store, reqs[i].in.messages[1].message_id) # {})
       => /\ Cardinality(store') = Cardinality(store)
          /\ \A r \in RowsWith(store', reqs[i].in.messages[1].message_id) :
               Contains(r.status, reqs[i].in.messages[1].field[1])]_vars

\* C5 as stated: statuses come first.  A webhook whose value carries a
\* statuses entry for a stored row, also when it carries a messages entry,
\* sets the status of that row and inserts nothing (its query having run).
C5_StatusesFirst ==
  [][\A i \in WebhookReqs :
       (/\ Finishes(i)
        /\ reqs[i].in.hasValue /\ reqs[i].in.hasStatuses
        /\ reqs[i].in.statuses # <<>>
        /\ reqs'[i].qres = "ok"
        /\ RowsWith(store, reqs[i].in.statuses[1].id) # {})
       => store' = {IF r.wamid = reqs[i].in.statuses[1].id
                    THEN [r EXCEPT !.status = reqs[i].in.statuses[1].status]
                    ELSE r : r \in store}]_vars

\* C5 as amended: messages come first.  A webhook whose value carries a
\* messages entry is handled by the messages rule alone, also when it carries
\* a statuses entry: a well-formed message to store issues the insert of that
\* message, and the query issued is never the update of the statuses entry.
\* The update of the statuses entry is issued only, and always, when the
\* value carries statuses and no messages.
C5_MessagesFirst ==
  \A i \in WebhookReqs :
    LET env == reqs[i].in
        q == reqs[i].query
    IN /\ IsNewMessage(env) =>
            (q.op = "insert" /\ q.wamid = env.messages[1].id
             /\ q.phone_number = env.messages[1].from /\ q.direction = "incoming")
       /\ (env.hasValue /\ env.hasMessages /\ env.hasStatuses /\ env.statuses # <<>>)
            => q # UpdateStatusQuery(env.statuses[1].status, env.statuses[1].id)
       /\ IsStatusEvent(env) =>
            q = UpdateStatusQuery(env.statuses[1].status, env.statuses[1].id)

\* An envelope with a message and with a status for the stored W1 has been
\* handled: the message is stored and the status of W1 is what it was.
C5_Witness ==
  \E i \in WebhookReqs :
    /\ reqs[i].pc = "done" /\ reqs[i].qres = "ok"
    /\ IsNewMessage(reqs[i].in)
    /\ reqs[i].in.hasStatuses /\ reqs[i].in.statuses # <<>>
    /\ RowsWith(store, reqs[i].in.messages[1].id) # {}
    /\ \E r \in RowsWith(store, reqs[i].in.statuses[1].id) :
         r.status # reqs[i].in.statuses[1].status

\* ---- send-message ----

HasTo(body) == body.to # Absent /\ body.type # Absent

\* The request lacks the field its type requires, or its type is neither
\* text nor template.
IsInvalidSend(body) ==
  /\ body.to # Absent /\ body.type # Absent
  /\ \/ body.type = "text" /\ Falsy(body.messageBody)
     \/ body.type = "template" /\ Falsy(body.templateName)
     \/ body.type \notin {"text", "template"}

IsValidSend(body) ==
  /\ body.to # Absent
  /\ \/ body.type = "text" /\ ~Falsy(body.messageBody)
     \/ body.type = "template" /\ ~Falsy(body.templateName)

\* C6: an invalid send request is answered by a 4xx, without any call to the
\* provider.
C6_InvalidSendRejected ==
  \A i \in SendReqs :
    IsInvalidSend(reqs[i].in) =>
      /\ reqs[i].calls = <<>>
      /\ Len(reqs[i].res) = 1
      /\ reqs[i].res[1].code \in 400..499

\* C7: a valid send request calls the provider exactly once, and is answered
\* exactly once when the handler is done.
C7_CallsOnceAnswersOnce ==
  \A i \in SendReqs :
    IsValidSend(reqs[i].in) =>
      /\ Len(reqs[i].calls) = 1
      /\ reqs[i].pc \in {"await_api", "done"}
      /\ reqs[i].pc = "done" => Len(reqs[i].res) = 1

\* "Template: <templateName>" or the message body.
SentContent(body) ==
  IF body.type = "template" THEN <<"Template: ">> \o body.templateName
  ELSE body.messageBody

\* C8: once the provider has accepted a send and returned the id W, the store
\* holds exactly one row with wamid W, and it is the outgoing row of that send.
C8_AcceptedSendPersisted ==
  \A i \in SendReqs :
    (reqs[i].pc = "done" /\ reqs[i].api.outcome = "accepted") =>
      /\ Cardinality(RowsWith(store, reqs[i].api.id)) = 1
      /\ \A r \in RowsWith(store, reqs[i].api.id) :
           /\ r.phone_number = reqs[i].in.to
           /\ r.direction = "outgoing"
           /\ r.status = <<"sent">>
           /\ r.content = SentContent(reqs[i].in)

\* C9: when the provider call of a send fails, the step that answers leaves
\* the store as it is and answers 5xx, with the provider's error payload or,
\* when there is none, a message; and no send request is ever answered 5xx
\* unless its provider call failed.
C9_FailedSendRelayed ==
  /\ [][\A i \in SendReqs :
          (Finishes(i) /\ reqs'[i].api.outcome \in {"rejected", "network"}) =>
            /\ store' = store
            /\ Len(reqs'[i].res) = 1
            /\ reqs'[i].res[1].code \in 500..599
            /\ reqs'[i].api.outcome = "rejected" =>
                 reqs'[i].res[1].payload = reqs'[i].api.payload
            /\ reqs'[i].api.outcome = "network" =>
                 (reqs'[i].res[1].payload # <<>>
                  /\ reqs'[i].res[1].payload # Rejected.payload)]_vars
  /\ [](\A i \in SendReqs :
          \A k \in 1..Len(reqs[i].res) :
            reqs[i].res[k].code >= 500 =>
              reqs[i].api.outcome \in {"rejected", "network"})

\* A send the provider rejected and a send that never reached it, both
\* answered.
C9_Witness ==
  /\ \E i \in SendReqs :
       reqs[i].pc = "done" /\ reqs[i].api.outcome = "rejected"
       /\ reqs[i].res[1].code = 500
  /\ \E i \in SendReqs :
       reqs[i].pc = "done" /\ reqs[i].api.outcome = "network"
       /\ reqs[i].res[1].code = 500

\* ---- history ----

HistoryReqs == {i \in 1..Len(reqs) : reqs[i].route = "history"}

\* rows lists, by ascending timestamp, exactly the rows of st for phone.
IsHistoryOf(rows, st, phone) ==
  \E l \in Listings({r \in st : r.phone_number = phone}) :
    /\ Len(rows) = Len(l)
    /\ \A k \in 1..Len(l) : rows[k] = Project(l[k])
    /\ IsSortedByTimestamp(rows)

\* C10: the step that answers GET /api/history/P (the database having run
\* the query) answers 200 with exactly the rows of P, by ascending timestamp.
C10_HistoryAnswersRows ==
  [][\A i \in 1..Len(reqs') :
       (/\ reqs'[i].route = "history"
        /\ Finishes(i)
        /\ reqs'[i].qres \in {"ok", "none"})
       => /\ Len(reqs'[i].res) = 1
          /\ reqs'[i].res[1].code = 200
          /\ reqs'[i].res[1].kind = "json"
          /\ IsHistoryOf(reqs'[i].res[1].rows, store, reqs'[i].in)]_vars

\* ---- events that refer to no stored row ----

\* The envelope's first message is a reaction.
IsReactionEvent(env) ==
  /\ env.hasValue /\ env.hasMessages /\ env.messages # <<>>
  /\ env.messages[1].type = "reaction"

\* The wamid a statuses or reaction event refers to.
ReferredWamid(env) ==
  IF IsStatusEvent(env) THEN env.statuses[1].id
  ELSE IF env.messages[1].has THEN env.messages[1].message_id
  ELSE Absent

\* C11: the step that answers a statuses or reaction event whose referred
\* message id is the wamid of no stored row leaves the store as it is and
\* answers 200, once.
C11_UnmatchedEventIsNoOp ==
  [][\A i \in 1..Len(reqs') :
       (/\ reqs'[i].route = "webhook"
        /\ Finishes(i)
        /\ IsStatusEvent(reqs'[i].in) \/ IsReactionEvent(reqs'[i].in)
        /\ RowsWith(store, ReferredWamid(reqs'[i].in)) = {})
       => /\ store' = store
          /\ Len(reqs'[i].res) = 1
          /\ reqs'[i].res[1].code = 200]_vars

\* A status for W2 and a reaction to W2 have been handled, the database
\* having run their updates, while the store holds a row but none for W2.
C11_Witness ==
  /\ store # {} /\ RowsWith(store, "W2") = {}
  /\ \E i \in WebhookReqs :
       /\ reqs[i].pc = "done" /\ reqs[i].qres = "ok"
       /\ IsStatusEvent(reqs[i].in) /\ ReferredWamid(reqs[i].in) = "W2"
  /\ \E i \in WebhookReqs :
       /\ reqs[i].pc = "done" /\ reqs[i].qres = "ok"
       /\ IsReactionEvent(reqs[i].in) /\ ReferredWamid(reqs[i].in) = "W2"

\* ---- envelopes of no recognised shape ----

KnownTypes ==
  {"text", "image", "audio", "video", "document", "sticker", "reaction"}

\* The value carries neither messages nor statuses.
IsEmptyValue(env) == env.hasValue /\ ~env.hasMessages /\ ~env.hasStatuses

\* The value carries a message whose type is none of the known ones.
IsUnknownMessage(env) ==
  /\ env.hasValue /\ env.hasMessages /\ env.messages # <<>>
  /\ env.messages[1].type \notin KnownTypes

\* C12 as stated: the step that answers an envelope of no recognised shape
\* answers 200 and leaves the store as it is.
C12_UnrecognisedIsNoOp ==
  [][\A i \in 1..Len(reqs') :
       (/\ reqs'[i].route = "webhook"
        /\ Finishes(i)
        /\ IsEmptyValue(reqs'[i].in) \/ IsUnknownMessage(reqs'[i].in))
       => /\ store' = store
          /\ Len(reqs'[i].res) = 1
          /\ reqs'[i].res[1].code = 200]_vars

\* C12 as amended: an envelope of no recognised shape is answered 200, once.
\* With neither messages nor statuses no query is issued and the store is
\* left as it is.  A message of an unknown type is stored like the known
\* ones, with the placeholder as its content: the handler issues the
\* insert-or-ignore of an incoming row for it, and when the database runs it
\* and no row has the message's wamid, the store gains exactly that row.
C12_UnknownTypeStored ==
  [][\A i \in 1..Len(reqs') :
       (reqs'[i].route = "webhook" /\ Finishes(i)) =>
         LET env == reqs'[i].in
             q == reqs'[i].query
         IN /\ (IsEmptyValue(env) \/ IsUnknownMessage(env)) =>
                 (Len(reqs'[i].res) = 1 /\ reqs'[i].res[1].code = 200)
            /\ IsEmptyValue(env) => (q.op = "none" /\ store' = store)
            /\ IsUnknownMessage(env) =>
                 /\ q = InsertQuery(env.messages[1].from, env.messages[1].id,
                                    "incoming", <<"[Unsupported Message Type]">>,
                                    <<"read">>)
                 /\ reqs'[i].qres # "ok" => store' = store
                 /\ (reqs'[i].qres = "ok" /\ RowsWith(store, q.wamid) # {}) =>
                      store' = store
                 /\ (reqs'[i].qres = "ok" /\ RowsWith(store, q.wamid) = {}) =>
                      /\ Cardinality(store') = Cardinality(store) + 1
                      /\ store \subseteq store'
                      /\ \A r \in store' \ store :
                           /\ r.wamid = q.wamid
                           /\ r.phone_number = q.phone_number
                           /\ r.direction = "incoming"
                           /\ r.content = <<"[Unsupported Message Type]">>]_vars

\* A message of an unknown type has been handled and its placeholder row is
\* in the store; an envelope with neither messages nor statuses has been
\* acknowledged.
C12_Witness ==
  /\ \E i \in WebhookReqs :
       /\ reqs[i].pc = "done" /\ reqs[i].qres = "ok"
       /\ IsUnknownMessage(reqs[i].in)
       /\ \E r \in RowsWith(store, reqs[i].in.messages[1].id) :
            r.content = <<"[Unsupported Message Type]">>
  /\ \E i \in WebhookReqs :
       reqs[i].pc = "done" /\ IsEmptyValue(reqs[i].in) /\ reqs[i].res = <<Ack(120)>>

\* ---- the inbox ----

PollReqs == {i \in 1..Len(reqs) : reqs[i].route = "poll"}

\* The payloads pushed by the requests rs, in the order of their arrival.
RECURSIVE Pushed(_)
Pushed(rs) ==
  IF rs = <<>> THEN <<>>
  ELSE (IF Head(rs).route = "push" THEN <<Head(rs).in>> ELSE <<>>) \o Pushed(Tail(rs))

\* The payloads that the polls among rs have answered, in order.
RECURSIVE Returned(_)
Returned(rs) ==
  IF rs = <<>> THEN <<>>
  ELSE (IF Head(rs).route = "poll" /\ Head(rs).res[1].kind = "json"
        THEN Head(rs).res[1].rows ELSE <<>>) \o Returned(Tail(rs))

\* C13 as stated: the poll reads and clears in two steps.  The step in which
\* a poll writes its answer leaves the inbox as it is (the clearing comes
\* later, and a push may run in between).
C13_PollReadsThenClears ==
  [][\A i \in 1..Len(reqs') :
       (reqs'[i].route = "poll" /\ Finishes(i) /\ reqs'[i].res[1].kind = "json")
         => messageInbox' = messageInbox]_vars

\* C13 as amended: the poll reads and clears in one step, so that no payload
\* is cleared without being returned.  The payloads answered by the polls so
\* far, followed by those still in the inbox, are exactly the payloads pushed
\* so far, in the order of their arrival.
C13_NoPayloadLost ==
  Returned(reqs) \o messageInbox = Pushed(reqs)

\* A payload was pushed and returned by a poll, and a payload pushed after
\* that poll waits in the inbox.
C13_Witness ==
  \E i \in PollReqs :
    /\ reqs[i].res[1].kind = "json"
    /\ reqs[i].res[1].rows # <<>>
    /\ \E j \in 1..Len(reqs) : j > i /\ reqs[j].route = "push"
    /\ messageInbox # <<>>

====
